---- MODULE Spec2Model ----
(***************************************************************************)
(* The radix-tree router of gochef/chef and its request dispatch context.  *)
(*                                                                         *)
(* Strings are sequences of one-character strings, so that prefixes,       *)
(* suffixes and single bytes are what the Go code makes them.  Nodes live  *)
(* in an arena (a sequence of records); a *node is an index into it and    *)
(* nil is 0.  A handler chain ([]Handler) is a sequence of handler names;  *)
(* the nil chain is the empty sequence (a registered chain always holds    *)
(* the route's own handler, so it is never empty).                         *)
(***************************************************************************)
EXTENDS Integers, Sequences, FiniteSets, TLC

VARIABLES
    nodes,      \* the arena of trie nodes; nodes[1] is Router.tree
    maxParam,   \* *Router.maxParam
    registered, \* the registrations made so far, in order (history)
    ctx,        \* the pooled dispatch context
    pc,         \* where the request in flight is: idle, dispatch, panic, hung
    req,        \* the request in flight (method, path)
    trail,      \* what the last lookup did (history of node.find)
    heap,       \* every context Router.pool.New has made; a *context is an index
    pool,       \* Router.pool: pool[c] is how many times context c lies in it
    procs       \* the ServeHTTP calls in flight, one record per request

serveVars == <<heap, pool, procs>>

vars == <<nodes, maxParam, registered, ctx, pc, req, trail, heap, pool, procs>>

\* ------------------------------------------------------------------ bounds

\* How many routes a run registers.
MaxRoutes == 2

\* ------------------------------------------------------------- constants

skind == 0
pkind == 1
akind == 2

NilNode == 0
Root == 1

NilChain == <<>>

GET == "GET"
POST == "POST"

methods ==
    {"CONNECT", "DELETE", "GET", "HEAD", "OPTIONS", "PATCH", "POST", "PUT", "TRACE"}

NotFoundHandler == "NotFoundHandler"
MethodNotAllowedHandler == "MethodNotAllowedHandler"

\* ---------------------------------------------------------------- strings

\* s[i:] and s[:i] of Go, i counted from 0.
From(s, i) == SubSeq(s, i + 1, Len(s))
Upto(s, i) == SubSeq(s, 1, i)

\* s[i] of Go, i counted from 0.
At(s, i) == s[i + 1]

\* The length of the longest common prefix of two strings.
RECURSIVE lcpFrom(_, _, _)
lcpFrom(a, b, l) ==
    IF l < Len(a) /\ l < Len(b) /\ At(a, l) = At(b, l)
    THEN lcpFrom(a, b, l + 1)
    ELSE l

LCP(a, b) == lcpFrom(a, b, 0)

\* The first index i >= from with s[i] = '/', or len(s).
RECURSIVE scanSlash(_, _)
scanSlash(s, i) ==
    IF i < Len(s) /\ At(s, i) # "/" THEN scanSlash(s, i + 1) ELSE i

\* ------------------------------------------------------------------ nodes

emptyMethodHandler == [m \in methods |-> NilChain]

\* newNode with the label taken from the wrong end of the prefix.
newNodeLastLabel(t, pre, p, c, mh, ppath, pnames) ==
    [kind |-> t, label |-> pre[Len(pre)], prefix |-> pre, parent |-> p,
     children |-> c, ppath |-> ppath, pnames |-> pnames, methodHandler |-> mh]

\* newNode that leaves the label at the zero byte.
newNodeNoLabel(t, pre, p, c, mh, ppath, pnames) ==
    [kind |-> t, label |-> "", prefix |-> pre, parent |-> p,
     children |-> c, ppath |-> ppath, pnames |-> pnames, methodHandler |-> mh]

newNode(t, pre, p, c, mh, ppath, pnames) ==
    [kind |-> t, label |-> At(pre, 0), prefix |-> pre, parent |-> p,
     children |-> c, ppath |-> ppath, pnames |-> pnames, methodHandler |-> mh]

\* The root NewRouter allocates: only its method table is set.
rootNode ==
    [kind |-> skind, label |-> "", prefix |-> <<>>, parent |-> NilNode,
     children |-> <<>>, ppath |-> <<>>, pnames |-> <<>>,
     methodHandler |-> emptyMethodHandler]

\* The child at the least of the positions idx of cs, or nil: the first hit of
\* a range loop over the children.
firstAt(cs, idx) ==
    IF idx = {} THEN NilNode
    ELSE cs[CHOOSE i \in idx : \A j \in idx : i <= j]

\* findChild that never finds the child.
findChildMissed(N, n, l, t) == NilNode

findChild(N, n, l, t) ==
    LET cs == N[n].children
    IN  firstAt(cs, {i \in 1..Len(cs) : N[cs[i]].label = l /\ N[cs[i]].kind = t})

\* findChildWithLabel that never finds the child.
findChildWithLabelMissed(N, n, l) == NilNode

findChildWithLabel(N, n, l) ==
    LET cs == N[n].children
    IN  firstAt(cs, {i \in 1..Len(cs) : N[cs[i]].label = l})

findChildByKind(N, n, t) ==
    LET cs == N[n].children
    IN  firstAt(cs, {i \in 1..Len(cs) : N[cs[i]].kind = t})

\* A method outside the nine verbs falls through the switch: nothing is set.
addHandler(mh, method, h) ==
    IF method \in methods THEN [mh EXCEPT ![method] = h] ELSE mh

findHandler(mh, method) ==
    IF method \in methods THEN mh[method] ELSE NilChain

\* checkMethodNotAllowed that does not look at the table.
checkMethodNotAllowedBlind(mh) == <<NotFoundHandler>>

checkMethodNotAllowed(mh) ==
    IF \E m \in methods : findHandler(mh, m) # NilChain
    THEN <<MethodNotAllowedHandler>>
    ELSE <<NotFoundHandler>>

\* ----------------------------------------------------------------- insert

\* node.insert, case l == 0: the root takes the whole path.
insertAtRoot(N, n, search, method, h, t, ppath, pnames) ==
    LET a == [N[n] EXCEPT !.label = At(search, 0), !.prefix = search]
        b == IF h # NilChain
             THEN [a EXCEPT !.kind = t,
                            !.methodHandler = addHandler(@, method, h),
                            !.ppath = ppath,
                            !.pnames = pnames]
             ELSE a
    IN  [N EXCEPT ![n] = b]

\* insertSplit that leaves the node's method table on the node as well.
insertSplitKeepsTable(N, n, search, l, method, h, t, ppath, pnames) ==
    LET old == N[n]
        id1 == Len(N) + 1
        id2 == Len(N) + 2
        nNode == newNode(old.kind, From(old.prefix, l), n, old.children,
                         old.methodHandler, old.ppath, old.pnames)
        reset == [old EXCEPT !.kind = skind,
                             !.label = At(old.prefix, 0),
                             !.prefix = Upto(old.prefix, l),
                             !.children = <<id1>>]
    IN  IF l = Len(search)
        THEN Append([N EXCEPT ![n] =
                        [reset EXCEPT !.kind = t,
                                      !.methodHandler = addHandler(@, method, h),
                                      !.ppath = ppath,
                                      !.pnames = pnames]],
                    nNode)
        ELSE Append(Append([N EXCEPT ![n] =
                               [reset EXCEPT !.children = <<id1, id2>>]],
                           nNode),
                    newNode(t, From(search, l), n, <<>>,
                            addHandler(emptyMethodHandler, method, h),
                            ppath, pnames))

\* insertSplit whose new child starts with an empty method table.
insertSplitDropsTable(N, n, search, l, method, h, t, ppath, pnames) ==
    LET old == N[n]
        id1 == Len(N) + 1
        id2 == Len(N) + 2
        nNode == newNode(old.kind, From(old.prefix, l), n, old.children,
                         emptyMethodHandler, old.ppath, old.pnames)
        reset == [old EXCEPT !.kind = skind,
                             !.label = At(old.prefix, 0),
                             !.prefix = Upto(old.prefix, l),
                             !.children = <<id1>>,
                             !.methodHandler = emptyMethodHandler,
                             !.ppath = <<>>,
                             !.pnames = <<>>]
    IN  IF l = Len(search)
        THEN Append([N EXCEPT ![n] =
                        [reset EXCEPT !.kind = t,
                                      !.methodHandler = addHandler(@, method, h),
                                      !.ppath = ppath,
                                      !.pnames = pnames]],
                    nNode)
        ELSE Append(Append([N EXCEPT ![n] =
                               [reset EXCEPT !.children = <<id1, id2>>]],
                           nNode),
                    newNode(t, From(search, l), n, <<>>,
                            addHandler(emptyMethodHandler, method, h),
                            ppath, pnames))

\* node.insert, case l < pl: the node keeps the common part and a new child
\* takes over the rest of its prefix, its children and its method table.
\* The children handed over keep the parent they had.
insertSplit(N, n, search, l, method, h, t, ppath, pnames) ==
    LET old == N[n]
        id1 == Len(N) + 1
        id2 == Len(N) + 2
        nNode == newNode(old.kind, From(old.prefix, l), n, old.children,
                         old.methodHandler, old.ppath, old.pnames)
        reset == [old EXCEPT !.kind = skind,
                             !.label = At(old.prefix, 0),
                             !.prefix = Upto(old.prefix, l),
                             !.children = <<id1>>,
                             !.methodHandler = emptyMethodHandler,
                             !.ppath = <<>>,
                             !.pnames = <<>>]
    IN  IF l = Len(search)
        THEN \* At parent node
             Append([N EXCEPT ![n] =
                        [reset EXCEPT !.kind = t,
                                      !.methodHandler = addHandler(@, method, h),
                                      !.ppath = ppath,
                                      !.pnames = pnames]],
                    nNode)
        ELSE \* Create child node
             Append(Append([N EXCEPT ![n] =
                               [reset EXCEPT !.children = <<id1, id2>>]],
                           nNode),
                    newNode(t, From(search, l), n, <<>>,
                            addHandler(emptyMethodHandler, method, h),
                            ppath, pnames))

\* node.insert, case l < sl with no child labelled search[0]: a new leaf.
insertChild(N, n, search, method, h, t, ppath, pnames) ==
    Append([N EXCEPT ![n].children = Append(@, Len(N) + 1)],
           newNode(t, search, n, <<>>,
                   addHandler(emptyMethodHandler, method, h), ppath, pnames))

\* insertExisting that leaves a chain already in the table alone.
insertExistingFirstWins(N, n, method, h, ppath, pnames) ==
    IF h # NilChain /\ findHandler(N[n].methodHandler, method) = NilChain
    THEN [N EXCEPT ![n] =
            [@ EXCEPT !.methodHandler = addHandler(@, method, h),
                      !.ppath = ppath,
                      !.pnames = IF Len(@) = 0 THEN pnames ELSE @]]
    ELSE N

\* node.insert, last case: the node already exists.
insertExisting(N, n, method, h, ppath, pnames) ==
    IF h # NilChain
    THEN [N EXCEPT ![n] =
            [@ EXCEPT !.methodHandler = addHandler(@, method, h),
                      !.ppath = ppath,
                      !.pnames = IF Len(@) = 0 THEN pnames ELSE @]]
    ELSE N

RECURSIVE nodeInsert(_, _, _, _, _, _, _, _)
nodeInsert(N, n, search, method, h, t, ppath, pnames) ==
    LET sl == Len(search)
        pl == Len(N[n].prefix)
        l  == LCP(search, N[n].prefix)
    IN  IF l = 0 THEN insertAtRoot(N, n, search, method, h, t, ppath, pnames)
        ELSE IF l < pl
        THEN insertSplit(N, n, search, l, method, h, t, ppath, pnames)
        ELSE IF l < sl
        THEN LET rest == From(search, l)
                 c == findChildWithLabel(N, n, At(rest, 0))
             IN  IF c # NilNode
                 THEN nodeInsert(N, c, rest, method, h, t, ppath, pnames)
                 ELSE insertChild(N, n, rest, method, h, t, ppath, pnames)
        ELSE insertExisting(N, n, method, h, ppath, pnames)

\* Router.insert: the router as the pair (arena, maxParam).  It raises
\* maxParam to the number of parameter names and inserts at the root.
routerInsert(R, method, path, h, t, ppath, pnames) ==
    [nodes |-> nodeInsert(R.nodes, Root, path, method, h, t, ppath, pnames),
     maxParam |-> IF R.maxParam < Len(pnames) THEN Len(pnames) ELSE R.maxParam]

\* Router.add from the first byte on: the scan for ':' and '*'.
RECURSIVE addScan(_, _, _, _, _, _, _)
addScan(R, method, path, i, handlers, ppath, pnames) ==
    IF i >= Len(path)
    THEN routerInsert(R, method, path, handlers, skind, ppath, pnames)
    ELSE IF At(path, i) = ":"
    THEN LET j == i + 1
             R1 == routerInsert(R, method, Upto(path, i), NilChain, skind,
                                <<>>, <<>>)
             e == scanSlash(path, i)
             names == Append(pnames, SubSeq(path, j + 1, e))
             cut == Upto(path, j) \o From(path, e)
         IN  IF j = Len(cut)
             THEN routerInsert(R1, method, Upto(cut, j), handlers, pkind,
                               ppath, names)
             ELSE addScan(routerInsert(R1, method, Upto(cut, j), NilChain,
                                       pkind, ppath, names),
                          method, cut, j + 1, handlers, ppath, names)
    ELSE IF At(path, i) = "*"
    THEN LET R1 == routerInsert(R, method, Upto(path, i), NilChain, skind,
                                <<>>, <<>>)
         IN  routerInsert(R1, method, Upto(path, i + 1), handlers, akind,
                          ppath, Append(pnames, <<"*">>))
    ELSE addScan(R, method, path, i + 1, handlers, ppath, pnames)

\* Router.add for a non-empty path: a leading '/' is supplied, the chain is
\* the router's middlewares, the group's, the handler and the after-handlers.
routerAdd(R, mws, after, method, path, h, hs) ==
    LET p == IF At(path, 0) # "/" THEN <<"/">> \o path ELSE path
        handlers == ((mws \o hs) \o <<h>>) \o after
    IN  addScan(R, method, p, 0, handlers, p, <<>>)

\* Router.add that validates after the leading '/' has been put in place.
routerAddSlashFirst(R, mws, aft, method, path, h, hs) ==
    LET Q == routerAdd(R, mws, aft, method, <<"/">> \o path, h, hs)
    IN  [nodes |-> Q.nodes, maxParam |-> Q.maxParam, fatal |-> FALSE]

\* Router.add from its first line: an empty path panics before anything is
\* touched, and the panic halts the program.
routerAddChecked(R, mws, aft, method, path, h, hs) ==
    IF path = <<>>
    THEN [nodes |-> R.nodes, maxParam |-> R.maxParam, fatal |-> TRUE]
    ELSE LET Q == routerAdd(R, mws, aft, method, path, h, hs)
         IN  [nodes |-> Q.nodes, maxParam |-> Q.maxParam, fatal |-> FALSE]

\* ------------------------------------------------------------------- find

\* The locals of node.find and the context fields it writes, at one of its
\* labels: Loop (the head of the for), Param, Any, End; done once it has
\* returned, panic once a nil node or an index out of range stopped it.
\* leaf is the node at which End was entered and last the node whose method
\* table was read last (nil when End was never reached); restored, exhausted
\* and dug record that a saved alternative was taken up, that the Issue #378
\* branch was taken and that End went on to a catch-all child.
findStart(c, path) ==
    [at |-> "Loop", n |-> Root, search |-> path, nc |-> 0, nk |-> skind,
     nn |-> NilNode, ns |-> <<>>,
     pvalues |-> c.pvalues, handlers |-> c.handlers, path |-> path,
     pnames |-> c.pnames,
     leaf |-> NilNode, last |-> NilNode, restored |-> FALSE,
     exhausted |-> FALSE, dug |-> FALSE]

\* n.prefix[len(n.prefix)-1] == '/' (Issue #623); the caller has checked that
\* the prefix is not empty.
endsInSlash(pre) == pre[Len(pre)] = "/"

\* After a saved alternative has been restored: goto Param, goto Any or return.
resume(f) ==
    IF f.nk = pkind THEN [f EXCEPT !.at = "Param", !.restored = TRUE]
    ELSE IF f.nk = akind THEN [f EXCEPT !.at = "Any", !.restored = TRUE]
    ELSE [f EXCEPT !.at = "done"]

\* stepLoop without the test l == pl: a prefix matched in part is passed.
stepLoopPartialPrefix(N, f) ==
    IF f.search = <<>> THEN [f EXCEPT !.at = "End"]
    ELSE
    LET nd == N[f.n]
        l  == IF nd.label # ":" THEN LCP(f.search, nd.prefix) ELSE 0
        rest == From(f.search, l)
        child == findChild(N, f.n, At(rest, 0), skind)
    IN  IF rest = <<>> THEN [f EXCEPT !.search = rest, !.at = "End"]
        ELSE IF child # NilNode
        THEN IF nd.prefix = <<>> THEN [f EXCEPT !.search = rest, !.at = "panic"]
             ELSE IF endsInSlash(nd.prefix)
             THEN [f EXCEPT !.search = rest, !.n = child,
                            !.nk = pkind, !.nn = f.n, !.ns = rest]
             ELSE [f EXCEPT !.search = rest, !.n = child]
        ELSE [f EXCEPT !.search = rest, !.at = "Param"]

\* The head of the loop down to the static child.
stepLoop(N, f) ==
    IF f.search = <<>> THEN [f EXCEPT !.at = "End"]
    ELSE
    LET nd == N[f.n]
        pl == IF nd.label # ":" THEN Len(nd.prefix) ELSE 0
        l  == IF nd.label # ":" THEN LCP(f.search, nd.prefix) ELSE 0
        rest == From(f.search, l)
        child == findChild(N, f.n, At(rest, 0), skind)
    IN  IF l # pl
        THEN resume([f EXCEPT !.n = f.nn, !.search = f.ns])
        ELSE IF rest = <<>> THEN [f EXCEPT !.search = rest, !.at = "End"]
        ELSE IF child # NilNode
        THEN IF nd.prefix = <<>> THEN [f EXCEPT !.search = rest, !.at = "panic"]
             ELSE IF endsInSlash(nd.prefix)
             THEN [f EXCEPT !.search = rest, !.n = child,
                            !.nk = pkind, !.nn = f.n, !.ns = rest]
             ELSE [f EXCEPT !.search = rest, !.n = child]
        ELSE [f EXCEPT !.search = rest, !.at = "Param"]

\* Label Param.
stepParam(N, f) ==
    IF f.n = NilNode THEN [f EXCEPT !.at = "panic"]
    ELSE
    LET nd == N[f.n]
        child == findChildByKind(N, f.n, pkind)
        i == scanSlash(f.search, 0)
        g == IF endsInSlash(nd.prefix)
             THEN [f EXCEPT !.nk = akind, !.nn = f.n, !.ns = f.search]
             ELSE f
    IN  IF child = NilNode THEN [f EXCEPT !.at = "Any"]
        ELSE IF Len(f.pvalues) = f.nc
        THEN [f EXCEPT !.at = "Loop", !.exhausted = TRUE]
        ELSE IF nd.prefix = <<>> \/ f.nc + 1 \notin 1..Len(f.pvalues)
        THEN [f EXCEPT !.at = "panic"]
        ELSE [g EXCEPT !.at = "Loop", !.n = child,
                       !.pvalues[f.nc + 1] = Upto(f.search, i),
                       !.nc = f.nc + 1,
                       !.search = From(f.search, i)]

\* Label Any, when the node has a catch-all child c: the two guarded writes
\* of the rest of the path into slot len(c.pnames)-1.
bindAny(N, f, c) ==
    LET k == Len(N[c].pnames)
        cap == Len(f.pvalues)
        first == IF cap > 0 THEN [f EXCEPT !.pvalues[k] = f.search] ELSE f
        second == IF cap = k THEN [first EXCEPT !.pvalues[k] = f.search]
                  ELSE first
    IN  IF (cap > 0 /\ k \notin 1..cap) \/ (cap = k /\ k = 0)
        THEN [f EXCEPT !.n = c, !.at = "panic"]
        ELSE [second EXCEPT !.n = c, !.at = "End"]

\* Label Any.
stepAny(N, f) ==
    IF f.n = NilNode THEN [f EXCEPT !.at = "panic"]
    ELSE
    LET c == findChildByKind(N, f.n, akind)
    IN  IF c # NilNode THEN bindAny(N, f, c)
        ELSE IF f.nn # NilNode
        THEN resume([f EXCEPT !.n = f.nn, !.nn = N[f.nn].parent,
                              !.search = f.ns])
        ELSE [f EXCEPT !.n = NilNode, !.at = "done"]

\* Label End that does not look for a catch-all child.
stepEndNoDig(N, method, f) ==
    LET nd == N[f.n]
        h == findHandler(nd.methodHandler, method)
        g == [f EXCEPT !.handlers = h, !.path = nd.ppath, !.pnames = nd.pnames,
                       !.leaf = f.n, !.last = f.n]
    IN  IF h # NilChain THEN [g EXCEPT !.at = "done"]
        ELSE [g EXCEPT !.handlers = checkMethodNotAllowed(nd.methodHandler),
                       !.n = NilNode, !.at = "done"]

\* Label End.
stepEnd(N, method, f) ==
    LET nd == N[f.n]
        h == findHandler(nd.methodHandler, method)
        g == [f EXCEPT !.handlers = h, !.path = nd.ppath, !.pnames = nd.pnames,
                       !.leaf = f.n, !.last = f.n]
        c == findChildByKind(N, f.n, akind)
        hc == findHandler(N[c].methodHandler, method)
        k == Len(N[c].pnames)
        d == [g EXCEPT !.handlers = IF hc # NilChain THEN hc
                                    ELSE checkMethodNotAllowed(N[c].methodHandler),
                       !.path = N[c].ppath, !.pnames = N[c].pnames,
                       !.n = c, !.last = c, !.dug = TRUE]
    IN  IF h # NilChain THEN [g EXCEPT !.at = "done"]
        ELSE IF c = NilNode
        THEN [g EXCEPT !.handlers = checkMethodNotAllowed(nd.methodHandler),
                       !.n = NilNode, !.at = "done"]
        ELSE IF k \notin 1..Len(f.pvalues) THEN [d EXCEPT !.at = "panic"]
        ELSE [d EXCEPT !.pvalues[k] = <<>>, !.at = "done"]

findStep(N, method, f) ==
    IF f.at = "Loop" THEN stepLoop(N, f)
    ELSE IF f.at = "Param" THEN stepParam(N, f)
    ELSE IF f.at = "Any" THEN stepAny(N, f)
    ELSE stepEnd(N, method, f)

\* node.find run from a state of its locals to its return.  The steps are
\* deterministic, so a state that comes back is a loop that never returns:
\* the run is cut there and marked hung.
RECURSIVE findRun(_, _, _, _)
findRun(N, method, f, seen) ==
    IF f.at \in {"done", "panic"} THEN f
    ELSE IF f \in seen THEN [f EXCEPT !.at = "hung"]
    ELSE findRun(N, method, findStep(N, method, f), seen \cup {f})

\* Router.Find: the lookup starts at the root of the router's tree.
routerFind(N, method, path, c) == findRun(N, method, findStart(c, path), {})

\* ---------------------------------------------------------------- context

\* The empty map[string]string and the empty Data map.
NoEntries == [k \in {} |-> <<>>]

\* NewContext with one parameter slot more than maxParam.
NewContextOneSpare(mp) ==
    [handlers |-> NilChain, path |-> <<>>, pnames |-> <<>>,
     pvalues |-> [i \in 1..(mp + 1) |-> <<>>], nextIndex |-> 0,
     params |-> NoEntries, data |-> NoEntries]

\* NewContext: maxParam empty parameter slots, two empty maps, nothing else
\* set.
NewContext(mp) ==
    [handlers |-> NilChain, path |-> <<>>, pnames |-> <<>>,
     pvalues |-> [i \in 1..mp |-> <<>>], nextIndex |-> 0,
     params |-> NoEntries, data |-> NoEntries]

\* context.reset that leaves the parameter names as well.
resetKeepsNames(c) ==
    [c EXCEPT !.nextIndex = -1, !.path = <<>>,
              !.handlers = <<NotFoundHandler>>]

\* context.reset: the parameter slots and the two maps are left as they are.
reset(c) ==
    [c EXCEPT !.nextIndex = -1, !.path = <<>>, !.pnames = <<>>,
              !.handlers = <<NotFoundHandler>>]

\* What node.find leaves in the context.
found(c, f) ==
    [c EXCEPT !.handlers = f.handlers, !.path = f.path, !.pnames = f.pnames,
              !.pvalues = f.pvalues]

\* A context the pool hands out again: reset overwrites every other field, so
\* only its parameter slots matter, and they hold whatever earlier requests
\* left there: a value that is no part of any path stands for it.
Stale == <<"?">>

Recycled(mp) == [NewContext(mp) EXCEPT !.pvalues = [i \in 1..mp |-> Stale]]

\* ------------------------------------------------------------------ pools

\* The patterns registered and the paths requested.
PatternPool ==
    { <<"/">>,
      <<"/", "a", "/", "n">>,
      <<"/", "a", "/", ":", "i", "d">>,
      <<"/", "a", "/", ":", "i", "d", "/", "b">>,
      <<"/", "a", "/", "*">>,
      <<"/", "*">>,
      <<"/", ":", "i", "/", ":", "j", "/", "n">>,
      <<"/", "a", "b">>,
      <<"/", ":", "i">>,
      <<"/", "a", ":", "i", "/", "b">>,
      <<"/", "a", ":", "i">> }

PathPool ==
    { <<"/">>,
      <<"/", "a">>,
      <<"/", "a", "/">>,
      <<"/", "x">>,
      <<"/", "a", "b">>,
      <<"/", "a", "x">>,
      <<"/", "a", "/", "n">>,
      <<"/", "a", "/", "x">>,
      <<"/", "a", "/", "x", "/", "b">>,
      <<"/", "a", "/", "x", "/", "n">>,
      <<"/", "a", "x", "/", "n">> }

RouteMethods == {GET, POST}
RequestMethods == {GET, POST}

\* The handler the k-th registration brings: every call registers its own.
HandlerNames == <<"h1", "h2", "h3", "h4", "h5", "h6">>

\* Router.middlewares and Router.after as NewRouter leaves them: Chef.Use and
\* Chef.After are not called in the runs modelled.
middlewares == <<>>
after == <<>>

\* ---------------------------------------------------------------- actions

NoContext == NewContext(0)
NoRequest == [method |-> "", path |-> <<>>]
NoTrail == [at |-> "none", leaf |-> NilNode, last |-> NilNode, nc |-> 0,
            restored |-> FALSE, exhausted |-> FALSE, dug |-> FALSE]

Init ==
    /\ nodes = <<rootNode>>
    /\ maxParam = 0
    /\ registered = <<>>
    /\ ctx = NoContext
    /\ pc = "boot"
    /\ req = NoRequest
    /\ trail = NoTrail
    /\ heap = <<>>
    /\ pool = <<>>
    /\ procs = <<>>

\* Chef.GET, Chef.POST, ...: Router.add during bootstrap.
Add(method, path) ==
    /\ pc = "boot"
    /\ Len(registered) < MaxRoutes
    /\ LET h == HandlerNames[Len(registered) + 1]
           R == routerAdd([nodes |-> nodes, maxParam |-> maxParam],
                          middlewares, after, method, path, h, <<>>)
       IN  /\ nodes' = R.nodes
           /\ maxParam' = R.maxParam
           /\ registered' = Append(registered,
                  [method |-> method, path |-> path,
                   chain |-> ((middlewares \o <<h>>) \o after)])
    /\ UNCHANGED <<ctx, pc, req, trail, serveVars>>

\* Chef.Run: the server starts; no route is registered from here on.
Run ==
    /\ pc = "boot"
    /\ pc' = "idle"
    /\ UNCHANGED <<nodes, maxParam, registered, ctx, req, trail, serveVars>>

\* Router.ServeHTTP up to the return of r.Find: a context from the pool (a
\* new one, or one put back by an earlier request), reset, lookup.
Serve(method, path, c0) ==
    /\ pc = "idle"
    /\ LET c == reset(c0)
           f == routerFind(nodes, method, path, c)
       IN  /\ ctx' = found(c, f)
           /\ trail' = [at |-> f.at, leaf |-> f.leaf, last |-> f.last,
                        nc |-> f.nc, restored |-> f.restored,
                        exhausted |-> f.exhausted, dug |-> f.dug]
           /\ pc' = IF f.at = "done" THEN "dispatch" ELSE f.at
    /\ req' = [method |-> method, path |-> path]
    /\ UNCHANGED <<nodes, maxParam, registered, serveVars>>

\* Router.ServeHTTP from ctx.Next() to its return: the chain runs, the
\* deferred Put hands the context back and the request holds none any more.
Dispatch ==
    /\ pc = "dispatch"
    /\ pc' = "idle"
    /\ ctx' = NoContext
    /\ req' = NoRequest
    /\ trail' = NoTrail
    /\ UNCHANGED <<nodes, maxParam, registered, serveVars>>

\* A panic inside r.Find unwinds ServeHTTP: the deferred Put still runs.
Unwind ==
    /\ pc = "panic"
    /\ pc' = "idle"
    /\ ctx' = NoContext
    /\ req' = NoRequest
    /\ trail' = NoTrail
    /\ UNCHANGED <<nodes, maxParam, registered, serveVars>>

Next ==
    \/ \E m \in RouteMethods, p \in PatternPool : Add(m, p)
    \/ Run
    \/ \E m \in RequestMethods, p \in PathPool,
          c0 \in {NewContext(maxParam), Recycled(maxParam)} : Serve(m, p, c0)
    \/ Dispatch
    \/ Unwind

Spec == Init /\ [][Next]_vars

\* ------------------------------------------------------- registration

\* The calls Chef.Some can make: any method token, any path, the empty one
\* included.
UnknownMethod == "BREW"
BuildMethods == {GET, POST, UnknownMethod}
BuildPool ==
    { <<>>,
      <<"/">>,
      <<"/", "a", "b">>,
      <<"/", "a", "c">>,
      <<"/", "a", "/", "n">>,
      <<"/", "a", "/", ":", "i", "d">>,
      <<"/", "*">> }

\* Chef.Some with one method: Router.add during bootstrap, with its panic.
Register(method, path) ==
    /\ pc = "boot"
    /\ Len(registered) < MaxRoutes
    /\ LET h == HandlerNames[Len(registered) + 1]
           Q == routerAddChecked([nodes |-> nodes, maxParam |-> maxParam],
                                 middlewares, after, method, path, h, <<>>)
       IN  /\ nodes' = Q.nodes
           /\ maxParam' = Q.maxParam
           /\ pc' = IF Q.fatal THEN "fatal" ELSE pc
           /\ registered' = Append(registered,
                  [method |-> method, path |-> path,
                   chain |-> ((middlewares \o <<h>>) \o after)])
    /\ UNCHANGED <<ctx, req, trail, serveVars>>

NextBuild == \E m \in BuildMethods, p \in BuildPool : Register(m, p)

SpecBuild == Init /\ [][NextBuild]_vars

\* ---------------------------------------------------------------- serving

\* How many requests the server takes in all.
MaxRequests == 2

\* How far past the end of its chain the handlers of a request drive the
\* cursor.
MaxPast == 1

\* The connections open to the server: net/http serves the requests of one
\* connection one after the other and those of two in any interleaving.
Conns == {"c1", "c2"}

\* Chef.Use and Chef.After of the applications served: one middleware in
\* front of every route's handler and one after-handler behind it.
ServedBefore == <<"m1">>
ServedAfter == <<"a1">>

\* The applications served: the routes each one registers before Run.
ServedApps ==
    { << [method |-> GET, path |-> <<"/", "a", "/", ":", "i", "d">>,
          handler |-> "h1"] >>,
      << [method |-> GET, path |-> <<"/", "a", "b">>, handler |-> "h1"],
         [method |-> GET, path |-> <<"/", ":", "i", "/", ":", "j", "/", "n">>,
          handler |-> "h2"] >>,
      << [method |-> GET, path |-> <<"/", ":", "i">>, handler |-> "h1"],
         [method |-> GET, path |-> <<"/", "a", ":", "i">>, handler |-> "h2"] >>,
      << [method |-> GET, path |-> <<"/", ":", "i">>, handler |-> "h1"],
         [method |-> GET, path |-> <<"/", "a", ":", "i", "/", "b">>,
          handler |-> "h2"] >> }

\* The requests that arrive.
ServedPaths ==
    { <<"/", "a", "/", "x">>,
      <<"/", "a", "/", "x", "/", "n">>,
      <<"/", "a", "/">> }

\* Router.add for the first k routes of an application, in order.
RECURSIVE build(_, _)
build(app, k) ==
    IF k = 0
    THEN [nodes |-> <<rootNode>>, maxParam |-> 0]
    ELSE routerAdd(build(app, k - 1), ServedBefore, ServedAfter,
                   app[k].method, app[k].path, app[k].handler, <<>>)

\* The one key handlers store under, and what Get answers for a missing key.
Key == "k"
NoValue == 0

\* context.Param: what the params map holds, "" for a missing key.
Param(c, key) == IF key \in DOMAIN c.params THEN c.params[key] ELSE <<>>

\* context.Set: the entry is written into the context's data map.
Set(c, key, v) ==
    [c EXCEPT !.data = [k \in DOMAIN c.data \cup {key} |->
                            IF k = key THEN v ELSE c.data[k]]]

\* context.Get (GetInt and GetString read through it, GetAll hands out the
\* same map): nil for a missing key.
Get(c, key) == IF key \in DOMAIN c.data THEN c.data[key] ELSE NoValue

\* context.Next that leaves the cursor where it was.
contextNextStuck(c) ==
    LET i == c.nextIndex + 1
    IN  [ctx |-> c, index |-> i,
         invoke |-> (Len(c.handlers) > 0) /\ (i < Len(c.handlers))]

\* context.Next: the cursor moves on by one; the handler under it is invoked
\* if there is one.
contextNext(c) ==
    LET i == c.nextIndex + 1
    IN  [ctx |-> [c EXCEPT !.nextIndex = i], index |-> i,
         invoke |-> (Len(c.handlers) > 0) /\ (i < Len(c.handlers))]

\* sync.Pool.Get taking context c out of the pool, sync.Pool.Put laying it
\* back in.
poolGet(pl, c) == [pl EXCEPT ![c] = @ - 1]
poolPutTwice(pl, c) == [pl EXCEPT ![c] = @ + 2]
poolPut(pl, c) == [pl EXCEPT ![c] = @ + 1]

\* The handlers a route's chain holds besides the two the router supplies:
\* what such a handler does is up to the application.
isUserHandler(name) == name \notin {NotFoundHandler, MethodNotAllowedHandler}

\* The ServeHTTP call of one connection: where it is, the serial number of
\* its request (0: none yet), the context it holds (0: none), its request,
\* the chain indices of the handler invocations on its stack, and its
\* history: the chain indices invoked in order, who called the Next that
\* invoked each (-1: ServeHTTP), the handlers that called Next, those that
\* returned without, whether a handler stored under Key, and how often the
\* context was put back.
IdleProc ==
    [pc |-> "idle", id |-> 0, ctx |-> 0, method |-> "", path |-> <<>>,
     stack |-> <<>>, log |-> <<>>, by |-> <<>>, adv |-> {}, quit |-> {},
     wrote |-> FALSE, puts |-> 0]

\* The server is running: an application has registered its routes.
InitServe ==
    \E app \in ServedApps :
        LET B == build(app, Len(app))
        IN  /\ nodes = B.nodes
            /\ maxParam = B.maxParam
            /\ registered = [k \in 1..Len(app) |->
                   [method |-> app[k].method, path |-> app[k].path,
                    chain |-> (ServedBefore \o <<app[k].handler>>)
                                  \o ServedAfter]]
            /\ ctx = NoContext
            /\ pc = "idle"
            /\ req = NoRequest
            /\ trail = NoTrail
            /\ heap = <<>>
            /\ pool = <<>>
            /\ procs = [r \in Conns |-> IdleProc]

top(r) == procs[r].stack[Len(procs[r].stack)]
running(r) == heap[procs[r].ctx].handlers[top(r) + 1]

\* The requests begun so far: serial numbers are handed out in order.
RECURSIVE latestId(_)
latestId(K) ==
    IF K = {} THEN 0
    ELSE LET k == CHOOSE x \in K : TRUE
             rest == latestId(K \ {k})
         IN  IF procs[k].id > rest THEN procs[k].id ELSE rest

begun == latestId(Conns)

\* ServeHTTP returns or unwinds: the deferred Put runs, and nothing of the
\* call is left but that it has ended.
finish(r) ==
    LET c == procs[r].ctx
        pl == poolPut(pool, c)
    IN  /\ pool' = pl
        /\ procs' = [procs EXCEPT ![r] =
               [IdleProc EXCEPT !.pc = "done", !.id = procs[r].id, !.ctx = c,
                                !.puts = procs[r].puts + (pl[c] - pool[c])]]

\* ServeHTTP, lines 530-532: a context out of the pool (one lying in it, or
\* a new one from Router.pool.New), the Put deferred, the context reset.
Acquire(r, method, path, c) ==
    /\ procs[r].pc \in {"idle", "done"}
    /\ begun < MaxRequests
    /\ \/ /\ c \in 1..Len(heap)
          /\ pool[c] > 0
          /\ heap' = [heap EXCEPT ![c] = reset(@)]
          /\ pool' = poolGet(pool, c)
       \/ /\ c = Len(heap) + 1
          /\ heap' = Append(heap, reset(NewContext(maxParam)))
          /\ pool' = Append(pool, 0)
    /\ procs' = [procs EXCEPT ![r] =
           [IdleProc EXCEPT !.pc = "reset", !.id = begun + 1, !.ctx = c,
                            !.method = method, !.path = path]]
    /\ UNCHANGED <<nodes, maxParam, registered, ctx, pc, req, trail>>

\* ServeHTTP, line 540: r.Find fills the context; a panic in it unwinds
\* ServeHTTP, a lookup that never returns leaves the request where it is.
Resolve(r) ==
    /\ procs[r].pc = "reset"
    /\ LET c == procs[r].ctx
           f == routerFind(nodes, procs[r].method, procs[r].path, heap[c])
       IN  /\ heap' = [heap EXCEPT ![c] = found(@, f)]
           /\ IF f.at = "panic"
              THEN finish(r)
              ELSE /\ procs' = [procs EXCEPT ![r].pc =
                          IF f.at = "done" THEN "found" ELSE "hung"]
                   /\ UNCHANGED pool
    /\ UNCHANGED <<nodes, maxParam, registered, ctx, pc, req, trail>>

\* ServeHTTP, line 542: ctx.Next() starts the chain.
Start(r) ==
    /\ procs[r].pc = "found"
    /\ LET c == procs[r].ctx
           a == contextNext(heap[c])
       IN  /\ heap' = [heap EXCEPT ![c] = a.ctx]
           /\ IF a.invoke
              THEN /\ procs' = [procs EXCEPT ![r] =
                          [@ EXCEPT !.pc = "chain",
                                    !.stack = <<a.index>>,
                                    !.log = <<a.index>>, !.by = <<-1>>]]
                   /\ UNCHANGED pool
              ELSE finish(r)
    /\ UNCHANGED <<nodes, maxParam, registered, ctx, pc, req, trail>>

\* The handler running calls c.Set.
HandlerSet(r) ==
    /\ procs[r].pc = "chain"
    /\ isUserHandler(running(r))
    /\ ~procs[r].wrote
    /\ heap' = [heap EXCEPT ![procs[r].ctx] = Set(@, Key, procs[r].id)]
    /\ procs' = [procs EXCEPT ![r].wrote = TRUE]
    /\ UNCHANGED <<nodes, maxParam, registered, ctx, pc, req, trail, pool>>

\* The handler running calls c.Next.
HandlerNext(r) ==
    /\ procs[r].pc = "chain"
    /\ isUserHandler(running(r))
    /\ heap[procs[r].ctx].nextIndex
           < Len(heap[procs[r].ctx].handlers) - 1 + MaxPast
    /\ LET c == procs[r].ctx
           a == contextNext(heap[c])
       IN  /\ heap' = [heap EXCEPT ![c] = a.ctx]
           /\ procs' = [procs EXCEPT ![r] =
                  [@ EXCEPT !.adv = @ \cup {top(r)},
                            !.stack = IF a.invoke THEN Append(@, a.index)
                                      ELSE @,
                            !.log = IF a.invoke THEN Append(@, a.index) ELSE @,
                            !.by = IF a.invoke THEN Append(@, top(r))
                                   ELSE @]]
    /\ UNCHANGED <<nodes, maxParam, registered, ctx, pc, req, trail, pool>>

\* The handler running returns: to the Next that invoked it, and from the
\* first handler of the chain to ServeHTTP, which returns as well.
HandlerReturn(r) ==
    /\ procs[r].pc = "chain"
    /\ LET n == Len(procs[r].stack)
       IN  IF n = 1
           THEN finish(r)
           ELSE /\ procs' = [procs EXCEPT ![r] =
                       [@ EXCEPT !.stack = SubSeq(@, 1, n - 1),
                                 !.quit = IF top(r) \in procs[r].adv
                                          THEN @ ELSE @ \cup {top(r)}]]
                /\ UNCHANGED pool
    /\ UNCHANGED <<nodes, maxParam, registered, ctx, pc, req, trail, heap>>

\* The handler running panics: every invocation on the stack unwinds, and
\* ServeHTTP with them.
HandlerPanic(r) ==
    /\ procs[r].pc = "chain"
    /\ isUserHandler(running(r))
    /\ finish(r)
    /\ UNCHANGED <<nodes, maxParam, registered, ctx, pc, req, trail, heap>>

NextServe ==
    \/ \E r \in Conns, p \in ServedPaths, c \in 1..MaxRequests :
           Acquire(r, GET, p, c)
    \/ \E r \in Conns : Resolve(r)
    \/ \E r \in Conns : Start(r)
    \/ \E r \in Conns : HandlerSet(r)
    \/ \E r \in Conns : HandlerNext(r)
    \/ \E r \in Conns : HandlerReturn(r)
    \/ \E r \in Conns : HandlerPanic(r)

SpecServe == InitServe /\ [][NextServe]_vars

\* ------------------------------------------------------------ trie shape

\* Routes that meet in one node: two parameter names at one position, a
\* longer route through a parameter, literals that split each other,
\* catch-alls beside them and a parameter inside a segment; and the requests
\* sent after them.
TriePool ==
    { <<"/", "a">>,
      <<"/", "a", "b">>,
      <<"/", "a", "/", "b">>,
      <<"/", "a", "/", ":", "i", "d">>,
      <<"/", "a", "/", ":", "u">>,
      <<"/", "a", "/", ":", "i", "d", "/", "b">>,
      <<"/", "a", "/", "*">>,
      <<"/", ":", "i">>,
      <<"/", "a", ":", "i">>,
      <<"/", "*">> }

TriePaths ==
    { <<"/">>,
      <<"/", "a">>,
      <<"/", "a", "/">>,
      <<"/", "a", "b">>,
      <<"/", "a", "/", "b">>,
      <<"/", "a", "/", "x">>,
      <<"/", "a", "/", "x", "/", "b">>,
      <<"/", "x">> }

NextTrie ==
    \/ \E m \in RouteMethods, p \in TriePool : Add(m, p)
    \/ Run
    \/ \E m \in RequestMethods, p \in TriePaths,
          c0 \in {NewContext(maxParam), Recycled(maxParam)} : Serve(m, p, c0)
    \/ Dispatch
    \/ Unwind

SpecTrie == Init /\ [][NextTrie]_vars

\* ------------------------------------------------------- pattern grammar

\* What a pattern means, read off the grammar and not off the trie: a literal
\* character matches itself, ':name' a segment up to the next '/' or the end
\* of the path, '*' the rest of the path.

isToken(ch) == ch = ":" \/ ch = "*"
IsLiteral(p) == \A i \in 1..Len(p) : ~isToken(p[i])
HasParam(p) == \E i \in 1..Len(p) : p[i] = ":"
HasAny(p) == \E i \in 1..Len(p) : p[i] = "*"

\* Every ':' and '*' directly follows a '/'.
Proper(p) == \A i \in 1..Len(p) : isToken(p[i]) => (i > 1 /\ p[i - 1] = "/")

NoMatch == [ok |-> FALSE, vals |-> <<>>]

\* The match of pat from offset i against path from offset k, with the values
\* of the parameters in the order of the pattern; nonEmpty asks every ':name'
\* to take at least one character.
RECURSIVE matchFrom(_, _, _, _, _)
matchFrom(pat, i, path, k, nonEmpty) ==
    IF i = Len(pat)
    THEN IF k = Len(path) THEN [ok |-> TRUE, vals |-> <<>>] ELSE NoMatch
    ELSE IF At(pat, i) = "*"
    THEN [ok |-> TRUE, vals |-> <<From(path, k)>>]
    ELSE IF At(pat, i) = ":"
    THEN LET e == scanSlash(pat, i)
             ke == scanSlash(path, k)
             rest == matchFrom(pat, e, path, ke, nonEmpty)
         IN  IF (nonEmpty /\ ke = k) \/ ~rest.ok THEN NoMatch
             ELSE [ok |-> TRUE,
                   vals |-> <<SubSeq(path, k + 1, ke)>> \o rest.vals]
    ELSE IF k < Len(path) /\ At(path, k) = At(pat, i)
    THEN matchFrom(pat, i + 1, path, k + 1, nonEmpty)
    ELSE NoMatch

Match(pat, path) == matchFrom(pat, 0, path, 0, TRUE)
Matches(pat, path) == Match(pat, path).ok
MayMatch(pat, path) == matchFrom(pat, 0, path, 0, FALSE).ok

\* The registrations made so far, and the chain a (method, pattern) pair
\* stands for: the one of its latest registration.
Routes == 1..Len(registered)
AllProper == \A k \in Routes : Proper(registered[k].path)
latest(m, p) ==
    CHOOSE k \in Routes :
        /\ registered[k].method = m /\ registered[k].path = p
        /\ \A j \in Routes :
              (registered[j].method = m /\ registered[j].path = p) => j <= k
ChainOf(m, p) == registered[latest(m, p)].chain

\* A lookup has been started for req; it has returned when pc = "dispatch".
Asked == req # NoRequest
Returned == pc = "dispatch"

\* ----------------------------------------------------------------- claims

\* Claim C1: for every registered (method, literal pattern) pair, a request
\* for that method and exactly that path returns with exactly the chain
\* registered for the pair, the pattern as route path, an empty list of
\* parameter names and no parameter bound.
LiteralRouteResolves ==
    \A k \in Routes :
        ( /\ IsLiteral(registered[k].path)
          /\ req = [method |-> registered[k].method,
                    path |-> registered[k].path] )
        => /\ Returned
           /\ ctx.handlers = ChainOf(req.method, req.path)
           /\ ctx.path = req.path
           /\ ctx.pnames = <<>>
           /\ trail.nc = 0

\* A literal route is resolved in a trie where a second literal route has
\* split its node.
LiteralRouteResolved ==
    /\ Returned
    /\ Len(registered) = 2
    /\ Len(nodes) = 3
    /\ \A k \in Routes : IsLiteral(registered[k].path)
    /\ registered[1].path # registered[2].path
    /\ req = [method |-> registered[1].method, path |-> registered[1].path]
    /\ ctx.handlers = registered[1].chain

\* Claim C2: a request whose path matches the pattern of a parameter route
\* registered under the requested method, and no other registered pattern,
\* returns with that route's chain and with every parameter bound, in the
\* order of the pattern, to its segment of the path. Stated for registrations
\* whose every ':' and '*' directly follows a '/'.
ParamRouteBinds ==
    (AllProper /\ Asked) =>
    \A k \in Routes :
        ( /\ HasParam(registered[k].path)
          /\ ~HasAny(registered[k].path)
          /\ registered[k].method = req.method
          /\ Matches(registered[k].path, req.path)
          /\ \A j \in Routes :
                registered[j].path # registered[k].path
                => ~MayMatch(registered[j].path, req.path) )
        => LET vals == Match(registered[k].path, req.path).vals
           IN  /\ Returned
               /\ ctx.handlers = ChainOf(req.method, registered[k].path)
               /\ Len(ctx.pvalues) >= Len(vals)
               /\ SubSeq(ctx.pvalues, 1, Len(vals)) = vals

\* Claim C3: when a literal route and a parameter route registered under the
\* same method both match the request path, the request returns with the
\* literal route's chain and binds no parameter, in either order of
\* registration.
StaticBeatsParam ==
    \A k, j \in Routes :
        ( /\ IsLiteral(registered[k].path)
          /\ HasParam(registered[j].path)
          /\ registered[j].method = registered[k].method
          /\ MayMatch(registered[j].path, registered[k].path)
          /\ req = [method |-> registered[k].method,
                    path |-> registered[k].path] )
        => /\ Returned
           /\ ctx.handlers = ChainOf(req.method, req.path)
           /\ ctx.pnames = <<>>
           /\ trail.nc = 0

\* The literal route wins after the parameter route was registered first, and
\* again after it was registered second.
StaticChosenParamFirst ==
    /\ Returned
    /\ Len(registered) = 2
    /\ HasParam(registered[1].path)
    /\ IsLiteral(registered[2].path)
    /\ registered[1].method = registered[2].method
    /\ Matches(registered[1].path, registered[2].path)
    /\ req = [method |-> registered[2].method, path |-> registered[2].path]
    /\ ctx.handlers = registered[2].chain

\* Claim C4: when the lookup ends at the catch-all node of a registered
\* pattern, the value in the catch-all's slot is the whole rest of the request
\* path after the part the pattern's literal and parameter segments take.
\* Stated for registrations whose every ':' and '*' directly follows a '/'.
CatchAllBindsRest ==
    ( /\ AllProper
      /\ Returned
      /\ trail.last # NilNode
      /\ nodes[trail.last].kind = akind )
    => LET nd == nodes[trail.last]
           m == matchFrom(nd.ppath, 0, req.path, 0, FALSE)
       IN  /\ m.ok
           /\ Len(ctx.pvalues) >= Len(m.vals)
           /\ ctx.pvalues[Len(m.vals)] = m.vals[Len(m.vals)]

\* Claim C5: with every ':' and '*' directly after a '/', if a registered
\* pattern with a chain for the requested method matches the request path, the
\* lookup returns with a chain registered for that method.
BacktrackingComplete ==
    ( /\ AllProper
      /\ Asked
      /\ \E k \in Routes : /\ registered[k].method = req.method
                           /\ Matches(registered[k].path, req.path) )
    => /\ Returned
       /\ \E j \in Routes : /\ registered[j].method = req.method
                            /\ ctx.handlers = registered[j].chain

leafTable == nodes[trail.leaf].methodHandler
AtLeaf == Returned /\ trail.leaf # NilNode
leafLacksMethod ==
    /\ findHandler(leafTable, req.method) = NilChain
    /\ leafTable # emptyMethodHandler

NoRuntimeFault ==
    /\ pc # "panic"
    /\ Returned => ctx.handlers # NilChain

\* Claim C9: every lookup terminates: it never comes back to a point of the
\* loop with the locals it had there before.
FindTerminates == pc # "hung"

\* Claim C10: a lookup that reaches a parameter child with as many parameters
\* bound as paramValues has slots returns with the not-found chain.
ExhaustionFailsClosed ==
    (Asked /\ trail.exhausted)
    => (Returned /\ ctx.handlers = <<NotFoundHandler>>)

\* Claim C11: once a (method, pattern) pair has been registered again, the
\* chain of its earlier registration is never installed, and every lookup for
\* the method that ends at a node of the pattern holding a chain for the
\* method returns with the chain of the latest registration.
LastWriteWins ==
    Asked =>
    \A k, j \in Routes :
        ( /\ k < j
          /\ registered[k].method = registered[j].method
          /\ registered[k].path = registered[j].path )
        => /\ ctx.handlers # registered[k].chain
           /\ ( /\ Returned
                /\ trail.last # NilNode
                /\ req.method = registered[j].method
                /\ ctx.path = registered[j].path
                /\ findHandler(nodes[trail.last].methodHandler, req.method)
                      # NilChain )
              => ctx.handlers = ChainOf(req.method, ctx.path)

\* A literal, a parameter and a catch-all pattern registered twice: the
\* request returns with the second chain.
secondChainInstalled ==
    /\ Returned
    /\ Len(registered) = 2
    /\ registered[1].method = registered[2].method
    /\ registered[1].path = registered[2].path
    /\ req.method = registered[2].method
    /\ ctx.handlers = registered[2].chain

SecondLiteralInstalled ==
    secondChainInstalled /\ IsLiteral(registered[2].path)

SecondParamInstalled ==
    secondChainInstalled /\ HasParam(registered[2].path) /\ trail.nc > 0

SecondCatchAllInstalled ==
    secondChainInstalled /\ HasAny(registered[2].path)

\* The length of the part two strings have in common at their start.
commonPart(a, b) ==
    CHOOSE l \in 0..Len(a) :
        /\ l <= Len(b)
        /\ Upto(a, l) = Upto(b, l)
        /\ (l = Len(a) \/ l = Len(b) \/ a[l + 1] # b[l + 1])

\* The trie holds exactly two literal routes, and each pattern goes on after
\* the part they share.
TwoDivergingLiterals ==
    /\ pc = "boot"
    /\ Len(registered) = 2
    /\ \A k \in Routes : /\ registered[k].path # <<>>
                         /\ IsLiteral(registered[k].path)
                         /\ registered[k].method \in methods
    /\ commonPart(registered[1].path, registered[2].path)
          < Len(registered[1].path)
    /\ commonPart(registered[1].path, registered[2].path)
          < Len(registered[2].path)

\* Claim C12: two literal patterns that diverge after a common part leave one
\* branch node with the common part as prefix and an empty method table, and
\* under it exactly two leaves whose prefixes are the two remainders, each
\* with its own chain; both patterns resolve to their own chains.
SplitShape ==
    TwoDivergingLiterals =>
    LET a == registered[1].path
        b == registered[2].path
        l == commonPart(a, b)
        cs == nodes[Root].children
    IN  /\ Len(nodes) = 3
        /\ nodes[Root].prefix = Upto(a, l)
        /\ nodes[Root].methodHandler = emptyMethodHandler
        /\ Len(cs) = 2
        /\ nodes[cs[1]].prefix = From(a, l)
        /\ nodes[cs[2]].prefix = From(b, l)
        /\ \A k \in Routes :
              /\ nodes[cs[k]].children = <<>>
              /\ nodes[cs[k]].methodHandler =
                    addHandler(emptyMethodHandler, registered[k].method,
                               registered[k].chain)
              /\ LET f == routerFind(nodes, registered[k].method,
                                     registered[k].path,
                                     reset(NewContext(maxParam)))
                 IN  f.at = "done" /\ f.handlers = registered[k].chain

\* "/ab" then "/ac": the branch node "/a" with the leaves "b" and "c".
SplitOfAbAc ==
    /\ TwoDivergingLiterals
    /\ registered[1].path = <<"/", "a", "b">>
    /\ registered[2].path = <<"/", "a", "c">>
    /\ nodes[Root].prefix = <<"/", "a">>
    /\ nodes[nodes[Root].children[1]].prefix = <<"b">>
    /\ nodes[nodes[Root].children[2]].prefix = <<"c">>

\* The call Router.add has just returned from or panicked in.
lastCall == registered'[Len(registered')]

\* Claim C13: a registration under a method token that is none of the known
\* verbs halts the program and leaves every trie node as it was.
UnknownMethodFatal ==
    [][ (registered' # registered /\ lastCall.method \notin methods)
        => (pc' = "fatal" /\ nodes' = nodes) ]_vars

\* Claim C14: a registration with the empty path halts the program with the
\* trie and the parameter capacity exactly as they were before the call.
EmptyPathFatal ==
    [][ (registered' # registered /\ lastCall.path = <<>>)
        => (pc' = "fatal" /\ nodes' = nodes /\ maxParam' = maxParam) ]_vars

\* The empty path was registered after a route had built a trie, and the
\* program halted.
HaltedOnEmptyPath ==
    /\ pc = "fatal"
    /\ Len(registered) = 2
    /\ registered[2].path = <<>>
    /\ registered[1].path # <<>>
    /\ nodes[Root].prefix = registered[1].path

\* The chain the request of connection r runs, once r.Find has set it.
chainOf(r) == heap[procs[r].ctx].handlers
cursorOf(r) == heap[procs[r].ctx].nextIndex
Running(r) == procs[r].pc = "chain"

\* Handlers are invoked through Next only, in chain order from index 0 and
\* each at most once, none past the end of the chain and none by a Next
\* that found the cursor elsewhere.
InvokedInOrder(r) ==
    /\ Len(procs[r].by) = Len(procs[r].log)
    /\ \A k \in 1..Len(procs[r].log) : procs[r].log[k] = k - 1
    /\ Len(procs[r].log) <= Len(chainOf(r))
    /\ cursorOf(r) >= Len(procs[r].log) - 1
    /\ \A k \in 1..Len(procs[r].stack) : procs[r].stack[k] \in 0..cursorOf(r)

\* C15 as stated: handlers run only through Next, in chain order from index
\* 0, each at most once; handler i+1 runs only after handler i has called
\* Next, so once a handler has returned without calling Next no later
\* handler runs; Next calls past the end invoke nothing.
ChainStopsWithoutAdvance ==
    \A r \in Conns :
        Running(r) =>
            /\ InvokedInOrder(r)
            /\ \A k \in 2..Len(procs[r].log) :
                   (procs[r].log[k] - 1) \in procs[r].adv
            /\ \A i \in procs[r].quit : Len(procs[r].log) <= i + 1

\* C15, amended: handlers run only through Next, in chain order from index
\* 0, each at most once; handler i+1 runs only on a Next call made by one of
\* the handlers 0..i, and once handler i has returned without calling Next a
\* later handler runs only on a further Next call of a handler before i;
\* Next calls past the end invoke nothing.
AdvanceDrivesChain ==
    \A r \in Conns :
        Running(r) =>
            /\ InvokedInOrder(r)
            /\ procs[r].by[1] = -1
            /\ \A k \in 2..Len(procs[r].log) :
                   /\ procs[r].by[k] \in 0..(procs[r].log[k] - 1)
                   /\ procs[r].by[k] \in procs[r].adv
            /\ \A i \in procs[r].quit :
                   \A k \in 1..Len(procs[r].log) :
                       procs[r].log[k] > i => procs[r].by[k] < i

\* The first handler called Next, the second returned without, the first
\* called Next again and the third ran; the cursor went past the end.
ThirdRunsAfterSecondQuit ==
    \E r \in Conns :
        /\ Running(r)
        /\ procs[r].log = <<0, 1, 2>>
        /\ 1 \in procs[r].quit
        /\ procs[r].by[3] = 0
        /\ cursorOf(r) >= Len(chainOf(r))

\* The parameter names the registered routes declare.
DeclaredNames ==
    UNION { { nodes[n].pnames[k] : k \in 1..Len(nodes[n].pnames) } :
            n \in 1..Len(nodes) }

\* C16: after reset and before the lookup, whatever the request before left
\* in the context, its handlers are the single not-found handler, its
\* cursor is -1, its path is empty and it has no parameter names, and Param
\* answers "" for every declared name.
ResetClearsRouting ==
    \A r \in Conns :
        procs[r].pc = "reset" =>
            LET c == heap[procs[r].ctx]
            IN  /\ c.handlers = <<NotFoundHandler>>
                /\ c.nextIndex = -1
                /\ c.path = <<>>
                /\ c.pnames = <<>>
                /\ \A name \in DeclaredNames : Param(c, name) = <<>>

\* A context that served a request with a parameter bound has been taken
\* out of the pool again for a later request and reset.
ResetOfUsedContext ==
    \E r \in Conns :
        /\ procs[r].pc = "reset"
        /\ procs[r].id > 1
        /\ \E i \in DOMAIN heap[procs[r].ctx].pvalues :
               heap[procs[r].ctx].pvalues[i] # <<>>

\* ServeHTTP has taken a context and has not returned.
InFlight(r) == procs[r].pc \in {"reset", "found", "chain", "hung"}

\* C17: a request that has ended has put its context back exactly once; a
\* request that has not ended (in the lookup, or with a handler of its
\* chain still running) has not put it back, and its context is not in the
\* pool.
PutOnceAfterChain ==
    \A r \in Conns :
        /\ procs[r].pc = "done" => procs[r].puts = 1
        /\ InFlight(r) => /\ procs[r].puts = 0
                          /\ pool[procs[r].ctx] = 0

\* A request whose chain of three ran to the end has returned, and its
\* context lies in the pool.
ContextBackAfterChain ==
    \E r \in Conns :
        /\ procs[r].pc = "done"
        /\ procs[r].puts = 1
        /\ pool[procs[r].ctx] = 1
        /\ heap[procs[r].ctx].nextIndex >= 2

\* No context is held by two requests in flight.
ExclusiveContexts ==
    \A r1, r2 \in Conns :
        (r1 # r2 /\ InFlight(r1) /\ InFlight(r2))
            => procs[r1].ctx # procs[r2].ctx

\* What the lookup of the request of connection r leaves in a context.
ownLookup(r) ==
    routerFind(nodes, procs[r].method, procs[r].path,
               reset(heap[procs[r].ctx]))

\* The handlers of the request of connection r see the chain and the
\* parameter values its own lookup wrote and the cursor its own Next calls
\* made.
OwnRouting(r) ==
    /\ chainOf(r) = ownLookup(r).handlers
    /\ heap[procs[r].ctx].pnames = ownLookup(r).pnames
    /\ \A i \in 1..Len(heap[procs[r].ctx].pnames) :
           heap[procs[r].ctx].pvalues[i] = ownLookup(r).pvalues[i]
    /\ cursorOf(r) >= Len(procs[r].log) - 1

\* C18: under every interleaving no context is held by two requests in
\* flight, and what the running handlers of a request observe in their
\* context (chain, cursor, parameter values, stored data) was written by
\* that request: its own reset, lookup, Next calls and handlers.
OwnContextOnly ==
    /\ ExclusiveContexts
    /\ \A r \in Conns :
           Running(r) =>
               /\ OwnRouting(r)
               /\ Get(heap[procs[r].ctx], Key)
                      = IF procs[r].wrote THEN procs[r].id ELSE NoValue

\* C19: what one request stored under a key is not observable through Get
\* by a later request that holds the same context.
StoredKeyDiesWithRequest ==
    \A r \in Conns :
        InFlight(r) =>
            Get(heap[procs[r].ctx], Key) \notin 1..(procs[r].id - 1)

\* Exclusive holding together with the chain, cursor and parameter values
\* alone, the stored data left aside.
ExclusiveAndOwnRouting ==
    /\ ExclusiveContexts
    /\ \A r \in Conns : Running(r) => OwnRouting(r)

\* The ':name' and '*' tokens of a pattern from position i on, and the most
\* that any registered route declares.
RECURSIVE tokensFrom(_, _)
tokensFrom(pat, i) ==
    IF i > Len(pat) THEN 0
    ELSE (IF pat[i] \in {":", "*"} THEN 1 ELSE 0) + tokensFrom(pat, i + 1)

DeclaredMax ==
    CHOOSE n \in 0..8 :
        /\ \A k \in 1..Len(registered) : tokensFrom(registered[k].path, 1) <= n
        /\ n = 0 \/ \E k \in 1..Len(registered) :
                        tokensFrom(registered[k].path, 1) = n

\* C20: once the routes are registered and the server runs, every context
\* the pool has made, whether it lies in the pool or a request holds it, has
\* as many parameter slots as the most parameters any registered route
\* declares, before and after every request it serves.
CapacityIsDeclaredMax ==
    \A c \in 1..Len(heap) : Len(heap[c].pvalues) = DeclaredMax

\* A context with two slots runs the chain of its second request, under
\* routes that declare two parameters at most.
ReusedContextKeepsCapacity ==
    \E r \in Conns :
        /\ Running(r)
        /\ procs[r].id > 1
        /\ Len(heap) = 1
        /\ DeclaredMax = 2
        /\ Len(heap[procs[r].ctx].pvalues) = 2

\* C21: while a handler of a matched route runs, Param of every parameter
\* name the route declares answers the value the lookup bound to it.
ParamReadsBinding ==
    \A r \in Conns :
        (Running(r) /\ isUserHandler(running(r))) =>
            LET c == heap[procs[r].ctx]
            IN  \A i \in 1..Len(c.pnames) : Param(c, c.pnames[i]) = c.pvalues[i]

\* The children of node n that are of kind t.
kids(n, t) ==
    { i \in 1..Len(nodes[n].children) : nodes[nodes[n].children[i]].kind = t }

\* C22: whatever has been registered, every node has at most one child of
\* kind Param and at most one child of kind CatchAll.
OneParamOneAnyChild ==
    \A n \in 1..Len(nodes) :
        /\ Cardinality(kids(n, pkind)) <= 1
        /\ Cardinality(kids(n, akind)) <= 1

\* Two registrations went through the same parameter position: the one
\* Param child of a node holds a chain and has a child of its own.
ParamChildShared ==
    /\ Len(registered) = 2
    /\ \E n \in 1..Len(nodes) :
           /\ Cardinality(kids(n, pkind)) = 1
           /\ \E i \in kids(n, pkind) :
                  LET c == nodes[n].children[i]
                  IN  /\ nodes[c].children # <<>>
                      /\ \E m \in methods :
                             findHandler(nodes[c].methodHandler, m) # NilChain

ChainlessLeafNotFound ==
    /\ AtLeaf
    /\ leafTable = emptyMethodHandler
    /\ findChildByKind(nodes, trail.leaf, akind) = NilNode
    /\ ctx.handlers = <<NotFoundHandler>>

\* The parameter names a pattern declares from position i on, in order: the
\* text between a ':' and the next '/', and "*" for a catch-all, which ends
\* the pattern.
RECURSIVE namesOf(_, _)
namesOf(pat, i) ==
    IF i > Len(pat) THEN <<>>
    ELSE IF pat[i] = "*" THEN << <<"*">> >>
    ELSE IF pat[i] = ":"
    THEN LET e == scanSlash(pat, i - 1)
         IN  <<SubSeq(pat, i + 1, e)>> \o namesOf(pat, e + 1)
    ELSE namesOf(pat, i + 1)

\* C24: a lookup that installs the chain of a registered route reports that
\* route's pattern and the parameter names that pattern declares, whatever
\* else was registered through the same nodes before or after it.
ReportsOwnPattern ==
    Returned =>
        \A k \in Routes :
            ctx.handlers = registered[k].chain
                => /\ ctx.path = registered[k].path
                   /\ ctx.pnames = namesOf(registered[k].path, 1)

\* The path Router.add hands to insert together with the chain of a
\* pattern: every ':name' cut down to ':', and nothing after a '*'.
RECURSIVE cutFrom(_, _)
cutFrom(pat, i) ==
    IF i > Len(pat) THEN <<>>
    ELSE IF pat[i] = "*" THEN <<"*">>
    ELSE IF pat[i] = ":"
    THEN <<":">> \o cutFrom(pat, scanSlash(pat, i - 1) + 1)
    ELSE <<pat[i]>> \o cutFrom(pat, i + 1)

\* The node at which walking search from node n of arena N ends: prefix by
\* prefix, at each node on to the child labelled with the next byte.  Nil
\* when the walk leaves the trie.
RECURSIVE walk(_, _, _)
walk(N, n, search) ==
    LET l == LCP(search, N[n].prefix)
    IN  IF l < Len(N[n].prefix) THEN NilNode
        ELSE IF l = Len(search) THEN n
        ELSE LET c == firstAt(N[n].children,
                              { i \in 1..Len(N[n].children) :
                                  N[N[n].children[i]].label = At(search, l) })
             IN  IF c = NilNode THEN NilNode ELSE walk(N, c, From(search, l))

\* The chain the trie N stores for the pair of registration r.
storedFor(N, r) ==
    LET w == walk(N, Root, cutFrom(r.path, 1))
    IN  IF w = NilNode THEN NilChain
        ELSE findHandler(N[w].methodHandler, r.method)

samePair(r1, r2) ==
    r1.method = r2.method /\ cutFrom(r1.path, 1) = cutFrom(r2.path, 1)

ChainsStayStored ==
    \A k \in Routes :
        \E j \in Routes :
            /\ samePair(registered[k], registered[j])
            /\ \A i \in Routes : samePair(registered[k], registered[i]) => i <= j
            /\ storedFor(nodes, registered[k]) = registered[j].chain

Orders == { f \in [Routes -> Routes] : \A i, j \in Routes : f[i] = f[j] => i = j }

RECURSIVE builtIn(_, _)
builtIn(f, k) ==
    IF k = 0
    THEN [nodes |-> <<rootNode>>, maxParam |-> 0]
    ELSE LET r == registered[f[k]]
         IN  routerAdd(builtIn(f, k - 1), middlewares, after, r.method,
                       r.path, r.chain[1], <<>>)

\* What a lookup yields: how it ended, the chain, the pattern, the
\* parameter names and the values bound to them.
yield(at, c) ==
    [at |-> at, handlers |-> c.handlers, path |-> c.path, pnames |-> c.pnames,
     vals |-> [i \in 1..Len(c.pnames) |->
                  IF i <= Len(c.pvalues) THEN c.pvalues[i] ELSE <<>>]]

yieldIn(f) ==
    LET B == builtIn(f, Len(registered))
        c == reset(NewContext(B.maxParam))
        g == routerFind(B.nodes, req.method, req.path, c)
    IN  yield(g.at, found(c, g))

DistinctPairs ==
    \A i, j \in Routes :
        (registered[i].method = registered[j].method
            /\ registered[i].path = registered[j].path) => i = j

\* C26: for routes with pairwise distinct (method, pattern) pairs, what a
\* lookup yields (chain, pattern, parameter names, bound values) is what it
\* yields on the trie built from the same routes in any other order.
OrderIndependent ==
    (Asked /\ pc \in {"dispatch", "panic", "hung"} /\ DistinctPairs) =>
        \A f \in Orders :
            yieldIn(f) = yield(IF pc = "dispatch" THEN "done" ELSE pc, ctx)

\* C27: whatever has been inserted, every node among the children of a node
\* n has n as its parent, and the root has none.
ParentsPointBack ==
    /\ nodes[Root].parent = NilNode
    /\ \A n \in 1..Len(nodes) :
           \A i \in 1..Len(nodes[n].children) :
               nodes[nodes[n].children[i]].parent = n

\* C28: whatever has been inserted, every node but the root has a prefix
\* that is not empty and starts with the node's label, and the children of
\* a node carry pairwise distinct labels, so that no two of them have a
\* common prefix.
LabelsSplitPrefixes ==
    /\ \A n \in 2..Len(nodes) :
           /\ nodes[n].prefix # <<>>
           /\ nodes[n].label = nodes[n].prefix[1]
    /\ \A n \in 1..Len(nodes) :
           \A i, j \in 1..Len(nodes[n].children) :
               i # j =>
                   LET a == nodes[nodes[n].children[i]]
                       b == nodes[nodes[n].children[j]]
                   IN  a.label # b.label /\ LCP(a.prefix, b.prefix) = 0

\* A node that had children was split: it has two children now, the one
\* that took over the rest of its prefix with the children it had, and the
\* one of the second registration.
SiblingsAfterSplit ==
    /\ Len(registered) = 2
    /\ \E n \in 1..Len(nodes) :
           /\ Len(nodes[n].children) = 2
           /\ nodes[nodes[n].children[1]].children # <<>>
           /\ nodes[nodes[n].children[1]].parent = n

====
